---- MODULE Spec2Model ----
(***************************************************************************)
(* Model of lib/firebase/firestore.ts (getUserInvoices, getInvoiceStats)   *)
(* and lib/firebase/storage.ts (uploadFileWithProgress).                   *)
(*                                                                         *)
(* Amounts are JavaScript numbers.  An amount is modelled as a natural     *)
(* number of units, and an addition rounds its exact result to             *)
(* MantissaBits significant bits, ties to even, as IEEE-754 does with 53.  *)
(* Dates are milliseconds since the epoch, as a natural number.            *)
(***************************************************************************)
EXTENDS Integers, Sequences, FiniteSets, TLC

\* ---------------------------------------------------------------- bounds
MaxInvoices == 3        \* longest list of documents the query returns
MaxTime == 1            \* last reading of the clock
MantissaBits == 3       \* significant bits of a number (53 in JavaScript)
FileSize == 4           \* totalBytes of the uploaded file
MaxEvents == 4          \* upload-task events delivered to the observer

RECURSIVE Pow2(_)
Pow2(n) == IF n = 0 THEN 1 ELSE 2 * Pow2(n - 1)

Statuses == {"draft", "sent", "paid", "overdue", "cancelled"}
Totals == {1, Pow2(MantissaBits)}
\* createInvoice always writes dueDate (line 41), so every document has one
DueDates == {0, 1}
NoDate == -1
Messages == {"", "unavailable"}

VARIABLES
    docs,       \* the user's invoice documents, in the order the query returns them
    clock,      \* the last value new Date() returned
    pc,         \* position of the getInvoiceStats call
    invoices,   \* const invoices, the result of getUserInvoices
    today,      \* const today
    idx,        \* number of invoices forEach has visited
    stats,      \* const stats, mutated by the forEach callback
    outcome,    \* how the promise of getInvoiceStats settled
    prev,       \* input and result of the last call that returned before this one
    args,       \* the arguments of the uploadFileWithProgress call
    task,       \* the upload task as the observer sees it
    promise,    \* the promise uploadFileWithProgress returned
    urlCalls,   \* getDownloadURL calls in flight
    reported,   \* what onProgress was last called with
    trace       \* the events delivered so far and the settlements they made

statsVars == <<docs, clock, pc, invoices, today, idx, stats, outcome, prev>>
uploadVars == <<args, task, promise, urlCalls, reported, trace>>
vars == <<docs, clock, pc, invoices, today, idx, stats, outcome, prev,
          args, task, promise, urlCalls, reported, trace>>

\* ------------------------------------------------------------ JS numbers
RECURSIVE Ulp(_)
Ulp(n) == IF n < Pow2(MantissaBits) THEN 1 ELSE 2 * Ulp(n \div 2)

\* the exact value n rounded to the nearest representable number, ties to even
RoundNumber(n) ==
    LET u == Ulp(n)
        q == n \div u
        r == n % u
    IN  IF 2 * r < u THEN q * u
        ELSE IF 2 * r > u THEN (q + 1) * u
        ELSE IF q % 2 = 0 THEN q * u ELSE (q + 1) * u

\* a + b on numbers
NumAdd(a, b) == RoundNumber(a + b)

\* ------------------------------------------------------- getUserInvoices
\* the documents tried: every total and due date with four of the statuses,
\* and one draft (the code tells "paid" from the other statuses, nothing else)
Doc ==
    [status : Statuses \ {"draft"}, total : Totals, dueDate : DueDates]
        \cup [status : {"draft"}, total : {1}, dueDate : {0}]

\* data.dueDate?.toDate() || new Date()
ToDate(ts, now) == IF ts = NoDate THEN now ELSE ts

\* the object the map callback builds from one document
ToInvoice(d, now) ==
    [status |-> d.status, total |-> d.total, dueDate |-> ToDate(d.dueDate, now)]

ZeroStats(n) ==
    [totalInvoices |-> n, paidInvoices |-> 0, unpaidInvoices |-> 0,
     overdueInvoices |-> 0, totalRevenue |-> 0, outstandingAmount |-> 0]

\* ------------------------------------------------------- getInvoiceStats
\* mutants of InitStats: a count that starts one too high; a stats object kept
\* from the call before instead of a fresh one
InitStatsOneBased(list) == [ZeroStats(Len(list)) EXCEPT !.totalInvoices = @ + 1]
InitStatsKept(list) ==
    IF prev.has THEN [prev.stats EXCEPT !.totalInvoices = Len(list)]
    ELSE ZeroStats(Len(list))

\* const stats: InvoiceStats = { totalInvoices: invoices.length, ... 0 }
InitStats(list) == ZeroStats(Len(list))

\* mutant of IsOverdue: an invoice due today counts as overdue
IsOverdueOnOrBefore(invoice, asOf) ==
    invoice.dueDate <= asOf /\ invoice.status # "paid"

\* invoice.dueDate < today && invoice.status !== "paid"
IsOverdue(invoice, asOf) == invoice.dueDate < asOf /\ invoice.status # "paid"

\* mutants of Visit: cancelled invoices are left out of the counts; the due
\* date is tested outside the else branch, without the status; the total is
\* added to totalRevenue for every invoice; the total is added to
\* outstandingAmount for every invoice
VisitSkipsCancelled(s, invoice, asOf) ==
    IF invoice.status = "cancelled" THEN s
    ELSE IF invoice.status = "paid"
    THEN [s EXCEPT !.paidInvoices = @ + 1,
                   !.totalRevenue = NumAdd(@, invoice.total)]
    ELSE [s EXCEPT !.unpaidInvoices = @ + 1,
                   !.outstandingAmount = NumAdd(@, invoice.total),
                   !.overdueInvoices = IF IsOverdue(invoice, asOf) THEN @ + 1 ELSE @]
VisitOverdueAnyStatus(s, invoice, asOf) ==
    LET t == IF invoice.status = "paid"
             THEN [s EXCEPT !.paidInvoices = @ + 1,
                            !.totalRevenue = NumAdd(@, invoice.total)]
             ELSE [s EXCEPT !.unpaidInvoices = @ + 1,
                            !.outstandingAmount = NumAdd(@, invoice.total)]
    IN  [t EXCEPT !.overdueInvoices = IF invoice.dueDate < asOf THEN @ + 1 ELSE @]
VisitRevenueOfAll(s, invoice, asOf) ==
    LET t == [s EXCEPT !.totalRevenue = NumAdd(@, invoice.total)]
    IN  IF invoice.status = "paid"
        THEN [t EXCEPT !.paidInvoices = @ + 1]
        ELSE [t EXCEPT !.unpaidInvoices = @ + 1,
                       !.outstandingAmount = NumAdd(@, invoice.total),
                       !.overdueInvoices = IF IsOverdue(invoice, asOf) THEN @ + 1 ELSE @]
VisitOutstandingOfAll(s, invoice, asOf) ==
    LET t == [s EXCEPT !.outstandingAmount = NumAdd(@, invoice.total)]
    IN  IF invoice.status = "paid"
        THEN [t EXCEPT !.paidInvoices = @ + 1,
                       !.totalRevenue = NumAdd(@, invoice.total)]
        ELSE [t EXCEPT !.unpaidInvoices = @ + 1,
                       !.overdueInvoices = IF IsOverdue(invoice, asOf) THEN @ + 1 ELSE @]

\* the forEach callback
Visit(s, invoice, asOf) ==
    IF invoice.status = "paid"
    THEN [s EXCEPT !.paidInvoices = @ + 1,
                   !.totalRevenue = NumAdd(@, invoice.total)]
    ELSE [s EXCEPT !.unpaidInvoices = @ + 1,
                   !.outstandingAmount = NumAdd(@, invoice.total),
                   !.overdueInvoices = IF IsOverdue(invoice, asOf) THEN @ + 1 ELSE @]

\* mutant of VisitThrows: the callback rejects a cancelled invoice
VisitThrowsOnCancelled(invoice) == invoice.status = "cancelled"

\* no statement of the forEach callback can throw on an Invoice
VisitThrows(invoice) == FALSE

\* the whole forEach over a list, from a given stats object
RECURSIVE Fold(_, _, _)
Fold(s, list, asOf) ==
    IF list = <<>> THEN s
    ELSE Fold(Visit(s, Head(list), asOf), Tail(list), asOf)

\* lines 219-244 run on a list with a given reading of the clock
ComputeStats(list, asOf) == Fold(InitStats(list), list, asOf)

NoStats == ZeroStats(0)

NoPrev == prev = [has |-> FALSE, invoices |-> <<>>, today |-> 0, stats |-> NoStats]

StatsIdle ==
    /\ pc = "idle" /\ invoices = <<>> /\ today = 0 /\ idx = 0
    /\ stats = NoStats /\ outcome = "none"

\* getInvoiceStats(userId) is called: getUserInvoices is awaited
Call ==
    /\ pc \in {"idle", "returned", "rejected"}
    /\ pc' = "fetch"
    /\ invoices' = <<>> /\ today' = 0 /\ idx' = 0 /\ stats' = NoStats
    /\ outcome' = "none"
    /\ prev' = IF pc = "returned"
               THEN [has |-> TRUE, invoices |-> invoices, today |-> today,
                     stats |-> stats]
               ELSE prev
    /\ UNCHANGED <<docs, clock>>
    /\ UNCHANGED uploadVars

\* getDocs resolves; the documents are mapped to Invoice objects; back in
\* getInvoiceStats the stats object is built and the clock is read
FetchOk ==
    /\ pc = "fetch"
    /\ \E tFetch \in clock..MaxTime : \E tNow \in tFetch..MaxTime :
          /\ invoices' = [i \in 1..Len(docs) |-> ToInvoice(docs[i], tFetch)]
          /\ today' = tNow
          /\ clock' = tNow
    /\ stats' = InitStats(invoices')
    /\ idx' = 0
    /\ pc' = "fold"
    /\ UNCHANGED <<docs, outcome, prev>>
    /\ UNCHANGED uploadVars

\* getDocs rejects: getUserInvoices throws, and so does getInvoiceStats
FetchFail ==
    /\ pc = "fetch"
    /\ pc' = "rejected"
    /\ outcome' = "error"
    /\ UNCHANGED <<docs, clock, invoices, today, idx, stats, prev>>
    /\ UNCHANGED uploadVars

\* one call of the forEach callback; an exception in it would reach the
\* catch block, which rethrows
ForEachStep ==
    /\ pc = "fold"
    /\ idx < Len(invoices)
    /\ IF VisitThrows(invoices[idx + 1])
       THEN /\ pc' = "rejected"
            /\ outcome' = "error"
            /\ UNCHANGED <<idx, stats>>
       ELSE /\ stats' = Visit(stats, invoices[idx + 1], today)
            /\ idx' = idx + 1
            /\ UNCHANGED <<pc, outcome>>
    /\ UNCHANGED <<docs, clock, invoices, today, prev>>
    /\ UNCHANGED uploadVars

\* return stats
ReturnStats ==
    /\ pc = "fold"
    /\ idx = Len(invoices)
    /\ pc' = "returned"
    /\ outcome' = "stats"
    /\ UNCHANGED <<docs, clock, invoices, today, idx, stats, prev>>
    /\ UNCHANGED uploadVars

\* ------------------------------------------------ uploadFileWithProgress
DownloadURL == "https://storage/file"
NotReported == [kind |-> "none", num |-> 0, den |-> 1]

\* (snapshot.bytesTransferred / snapshot.totalBytes) * 100, as the fraction
\* num / den of a percentage; 0 / 0 is NaN
Progress(bytesTransferred, totalBytes) ==
    IF totalBytes = 0
    THEN [kind |-> "NaN", num |-> 0, den |-> 1]
    ELSE [kind |-> "percent", num |-> bytesTransferred * 100, den |-> totalBytes]

\* message || fallback
OrDefault(message, fallback) == IF message = "" THEN fallback ELSE message

\* resolve(value) and reject(reason) of the Promise executor: a settled
\* promise stays as it is
Resolve(p, value) ==
    IF p.state = "pending" THEN [state |-> "fulfilled", value |-> value] ELSE p
Reject(p, reason) ==
    IF p.state = "pending" THEN [state |-> "rejected", value |-> reason] ELSE p

\* the three observers passed to uploadTask.on("state_changed", ...)
NextObserver(r, snapshot) ==
    IF args.onProgress THEN Progress(snapshot.bytesTransferred, snapshot.totalBytes)
    ELSE r
\* mutant of ErrorObserver: the error is logged and the promise left pending
ErrorObserverLogsOnly(p, message) == p
ErrorObserver(p, message) == Reject(p, OrDefault(message, "Failed to upload file"))
CompleteObserver(n) == n + 1

\* the continuation of the complete observer after await getDownloadURL
UrlFulfilled(p, url) == Resolve(p, url)
UrlRejected(p, message) == Reject(p, OrDefault(message, "Failed to get download URL"))

Settled(p, q) == IF q # p THEN 1 ELSE 0

Event(name, p) ==
    [trace EXCEPT !.events = @ + 1, !.last = name,
                  !.settles = @ + Settled(promise, p)]

\* the task reports bytes transferred
TaskProgress ==
    /\ trace.events < MaxEvents
    /\ \E b \in task.bytesTransferred..args.totalBytes :
          /\ task' = [task EXCEPT !.bytesTransferred = b]
          /\ reported' = NextObserver(reported,
                            [bytesTransferred |-> b, totalBytes |-> args.totalBytes])
    /\ trace' = Event("progress", promise)
    /\ UNCHANGED <<args, promise, urlCalls>>
    /\ UNCHANGED statsVars

\* the task signals an error
TaskError ==
    /\ trace.events < MaxEvents
    /\ \E m \in Messages :
          /\ promise' = ErrorObserver(promise, m)
          /\ trace' = [Event("error", promise') EXCEPT !.errored = TRUE]
    /\ UNCHANGED <<args, task, urlCalls, reported>>
    /\ UNCHANGED statsVars

\* the task signals completion: getDownloadURL is called and awaited
TaskComplete ==
    /\ trace.events < MaxEvents
    /\ urlCalls' = CompleteObserver(urlCalls)
    /\ trace' = [Event("complete", promise) EXCEPT !.completed = TRUE]
    /\ UNCHANGED <<args, task, promise, reported>>
    /\ UNCHANGED statsVars

\* a getDownloadURL call resolves
UrlOk ==
    /\ urlCalls > 0
    /\ urlCalls' = urlCalls - 1
    /\ promise' = UrlFulfilled(promise, DownloadURL)
    /\ trace' = [trace EXCEPT !.last = "urlOk", !.urlOk = TRUE,
                              !.settles = @ + Settled(promise, promise')]
    /\ UNCHANGED <<args, task, reported>>
    /\ UNCHANGED statsVars

\* a getDownloadURL call rejects
UrlFail ==
    /\ urlCalls > 0
    /\ urlCalls' = urlCalls - 1
    /\ \E m \in Messages :
          /\ promise' = UrlRejected(promise, m)
          /\ trace' = [trace EXCEPT !.last = "urlFail", !.urlFailed = TRUE,
                                    !.settles = @ + Settled(promise, promise')]
    /\ UNCHANGED <<args, task, reported>>
    /\ UNCHANGED statsVars

UploadIdle ==
    /\ task = [bytesTransferred |-> 0]
    /\ promise = [state |-> "pending", value |-> ""]
    /\ urlCalls = 0
    /\ reported = NotReported
    /\ trace = [events |-> 0, last |-> "none", completed |-> FALSE,
                errored |-> FALSE, urlOk |-> FALSE, urlFailed |-> FALSE,
                settles |-> 0]

Init ==
    /\ docs \in UNION {[1..n -> Doc] : n \in 0..MaxInvoices}
    /\ clock = 0
    /\ StatsIdle
    /\ NoPrev
    /\ args = [onProgress |-> FALSE, totalBytes |-> 0]
    /\ UploadIdle

Next == Call \/ FetchOk \/ FetchFail \/ ForEachStep \/ ReturnStats

Spec == Init /\ [][Next]_vars

\* uploadFileWithProgress has been called: the task runs, the promise is pending
UploadInit ==
    /\ docs = <<>>
    /\ clock = 0
    /\ StatsIdle
    /\ NoPrev
    /\ args \in [onProgress : BOOLEAN, totalBytes : {0, FileSize}]
    /\ UploadIdle

UploadNext == TaskProgress \/ TaskError \/ TaskComplete \/ UrlOk \/ UrlFail

UploadSpec == UploadInit /\ [][UploadNext]_vars
\* ------------------------------------------------- reference definitions
IsPaid(invoice) == invoice.status = "paid"
NotPaid(invoice) == invoice.status \in {"draft", "sent", "overdue", "cancelled"}

\* the sum of the totals of a list, added in list order
RECURSIVE SumTotals(_)
SumTotals(list) ==
    IF list = <<>> THEN 0
    ELSE NumAdd(SumTotals(SubSeq(list, 1, Len(list) - 1)), list[Len(list)].total)

PaidPositions(list) == {i \in DOMAIN list : IsPaid(list[i])}
UnpaidPositions(list) == {i \in DOMAIN list : ~IsPaid(list[i])}
OverduePositions(list, asOf) ==
    {i \in DOMAIN list : list[i].status # "paid" /\ list[i].dueDate < asOf}

Visited == SubSeq(invoices, 1, idx)
Computing == pc \in {"fold", "returned"}

\* -------------------------------------------------------------- claims
\* C1: paidInvoices + unpaidInvoices = totalInvoices in the stats returned, and
\* after every step of the fold the two counts add up to the number of invoices
\* visited, which with the invoices still to visit is totalInvoices.
C1_PaidPlusUnpaidIsTotal ==
    /\ Computing =>
          /\ stats.paidInvoices + stats.unpaidInvoices = idx
          /\ idx + (Len(invoices) - idx) = stats.totalInvoices
    /\ pc = "returned" =>
          stats.paidInvoices + stats.unpaidInvoices = stats.totalInvoices

C1_Witness ==
    /\ pc = "fold" /\ 0 < idx /\ idx < Len(invoices)
    /\ stats.paidInvoices > 0 /\ stats.unpaidInvoices > 0

\* C2: overdueInvoices <= unpaidInvoices in every state of the computation, and
\* a step that increments overdueInvoices increments unpaidInvoices too.
C2_OverdueAtMostUnpaid ==
    /\ [](stats.overdueInvoices <= stats.unpaidInvoices)
    /\ [][stats'.overdueInvoices > stats.overdueInvoices =>
             /\ stats'.overdueInvoices = stats.overdueInvoices + 1
             /\ stats'.unpaidInvoices = stats.unpaidInvoices + 1]_vars

C2_Witness ==
    /\ pc = "returned"
    /\ stats.overdueInvoices > 0
    /\ stats.overdueInvoices < stats.unpaidInvoices
    /\ \E i \in DOMAIN invoices : IsPaid(invoices[i]) /\ invoices[i].dueDate < today

C4_OverdueIsStrictlyBefore ==
    Computing => stats.overdueInvoices = Cardinality(OverduePositions(Visited, today))

C4_Witness ==
    /\ pc = "returned"
    /\ \E i, j, k \in DOMAIN invoices :
          /\ ~IsPaid(invoices[i]) /\ invoices[i].dueDate = today
          /\ IsPaid(invoices[j]) /\ invoices[j].dueDate < today
          /\ ~IsPaid(invoices[k]) /\ invoices[k].dueDate < today
    /\ stats.overdueInvoices = 1

\* the list in the order p visits it
Permuted(list, p) == [i \in DOMAIN list |-> list[p[i]]]

\* C5: the stats do not depend on the order of the list: every permutation of
\* the invoices gives, with the same today, the six fields that were returned.
C5_OrderIndependent ==
    pc = "returned" =>
        \A p \in Permutations(DOMAIN invoices) :
            ComputeStats(Permuted(invoices, p), today) = stats

C7_EmptyListAllZero ==
    (pc = "returned" /\ invoices = <<>>) =>
        /\ stats.totalInvoices = 0 /\ stats.paidInvoices = 0
        /\ stats.unpaidInvoices = 0 /\ stats.overdueInvoices = 0
        /\ stats.totalRevenue = 0 /\ stats.outstandingAmount = 0

C7_Witness == pc = "returned" /\ invoices = <<>> /\ outcome = "stats"

\* C8: when every invoice is paid, overdueInvoices and outstandingAmount are 0,
\* whatever the totals, the due dates and today.
C8_AllPaidNothingOutstanding ==
    (pc = "returned" /\ \A i \in DOMAIN invoices : IsPaid(invoices[i])) =>
        stats.overdueInvoices = 0 /\ stats.outstandingAmount = 0

C8_Witness ==
    /\ pc = "returned" /\ Len(invoices) >= 2
    /\ \A i \in DOMAIN invoices : IsPaid(invoices[i])
    /\ \E i \in DOMAIN invoices : invoices[i].dueDate < today
    /\ \E i \in DOMAIN invoices : invoices[i].total > 1

\* C9: once the list of invoices is there the computation cannot fail: each
\* step of the fold is followed by another step or by the return, the number of
\* invoices left to visit decreases, and the call is rejected only when
\* getUserInvoices failed.
C9_NoErrorOutcome ==
    [][/\ pc = "fold" =>
             /\ ENABLED (ForEachStep \/ ReturnStats)
             /\ pc' \in {"fold", "returned"}
             /\ pc' = "fold" => Len(invoices') - idx' < Len(invoices) - idx
             /\ pc' = "returned" => outcome' = "stats" /\ idx' = Len(invoices')
       /\ outcome' = "error" => pc \in {"fetch", "rejected"}]_vars

C9_Witness ==
    /\ pc = "returned" /\ outcome = "stats" /\ Len(invoices) >= 2
    /\ \E i \in DOMAIN invoices : invoices[i].status = "cancelled"
\* C10: the promise of uploadFileWithProgress is settled at most once whatever
\* events the task delivers; it is fulfilled, with the download URL, only after
\* the task completed and getDownloadURL resolved; an error event or a
\* getDownloadURL rejection rejects it if it is still pending; a progress event
\* leaves it as it is.
C10_SettledAtMostOnce ==
    /\ [](/\ trace.settles <= 1
          /\ promise.state = "pending" <=> trace.settles = 0
          /\ promise.state = "fulfilled" =>
                trace.completed /\ trace.urlOk /\ promise.value = DownloadURL
          /\ promise.state = "rejected" => trace.errored \/ trace.urlFailed)
    /\ [][/\ promise.state # "pending" => promise' = promise
          /\ trace'.last \in {"error", "urlFail"} /\ promise.state = "pending" =>
                promise'.state = "rejected"
          /\ trace'.last = "urlOk" /\ promise.state = "pending" =>
                promise' = [state |-> "fulfilled", value |-> DownloadURL]
          /\ trace'.last \in {"progress", "complete"} => promise' = promise]_vars

C10_Witness ==
    /\ promise.state = "fulfilled"
    /\ trace.errored /\ trace.urlFailed /\ trace.last = "error"
    /\ reported.kind = "percent" /\ reported.num = 100 * reported.den
====
